---- MODULE Spec2Model ----
(***************************************************************************)
(* Drone Lift & Flight Time Explorer (src/lift_time_app.py).               *)
(*                                                                         *)
(* The script is re-run from top to bottom on every widget interaction.    *)
(* Its state is the two sidebar widgets (the motor selectbox and the       *)
(* battery slider) and everything the run derives from them: the metric    *)
(* values, the T/W alert and the shaded bands of the chart.                *)
(*                                                                         *)
(* Spec is the page under widget changes, CurveSpec the curve loop of one  *)
(* run, CoreSpec the calculations applied along families of inputs.        *)
(*                                                                         *)
(* Every number of the script is a CPython float, an IEEE-754 binary64.    *)
(* The arithmetic below is binary64 arithmetic with round-to-nearest-even, *)
(* bit for bit, so that rounding is part of what is checked.               *)
(***************************************************************************)
EXTENDS Integers, Sequences, FiniteSets, TLC

(***************************************************************************)
(* binary64.  A finite double is [neg, hi, lo, ex] with value              *)
(*   (-1)^neg * (hi * 2^28 + lo) * 2^ex,   2^52 <= hi*2^28 + lo < 2^53,    *)
(* or zero (hi = lo = ex = 0).  The values of the script stay far from the *)
(* subnormal and the overflow range, so the exponent is unbounded here.    *)
(* Wide integers are little-endian sequences of 14-bit limbs.              *)
(***************************************************************************)
Base == 2^14
LoSize == 2^28
HiMin == 2^24
HiSize == 2^25

FZero == [neg |-> FALSE, hi |-> 0, lo |-> 0, ex |-> 0]

IsZero(x) == x.hi = 0 /\ x.lo = 0

\* the element of a one-element set.  The({e : v \in {a}}) is e with v
\* standing for the value of a, computed once
The(S) == CHOOSE v \in S : TRUE

Limb(N, i) == IF i >= 0 /\ i < Len(N) THEN N[i + 1] ELSE 0

\* bits [from, from + w) of the wide integer N, w <= 28; bits below 0 are 0
Bits(N, from, w) ==
  IF from < 0
  THEN IF w <= -from THEN 0
       ELSE LET w2 == w + from
                a  == Limb(N, 0)
                b  == Limb(N, 1) * Base
            IN  ((a + b) % (2^w2)) * (2^(-from))
  ELSE LET q  == from \div 14
           r  == from % 14
           a  == Limb(N, q) \div (2^r)
           b  == Limb(N, q + 1) * (2^(14 - r))
           wc == w - (28 - r)
           c  == IF wc > 0 THEN (Limb(N, q + 2) % (2^wc)) * (2^(28 - r)) ELSE 0
       IN  (a + b + c) % (2^w)

\* the number of bits of a limb
Len2(x) == IF x = 0 THEN 0 ELSE CHOOSE n \in 1..14 : 2^(n - 1) <= x /\ x < 2^n

\* the number of bits of the wide integer N (k counts limbs from the top)
BitLen(N) ==
  LET n  == Len(N)
      nz == {k \in 0..(n - 1) : N[n - k] # 0}
      k  == CHOOSE i \in nz : \A j \in nz : i <= j
  IN  IF nz = {} THEN 0 ELSE 14 * (n - k - 1) + Len2(N[n - k])

\* some bit of N below bit j is set
LowNonZero(N, j) ==
  \/ \E i \in 1..(j \div 14) : i <= Len(N) /\ N[i] # 0
  \/ Limb(N, j \div 14) % (2^(j % 14)) # 0

\* the double nearest to (-1)^neg * N * 2^e, ties to even; sticky says
\* that the exact value lies strictly above N * 2^e (a division's remainder)
Norm(neg, W, e, sticky) ==
  The({The({The({
       LET k  == L - 53
           up == rb /\ (sb \/ l % 2 = 1)
           l1 == IF up THEN l + 1 ELSE l
           h1 == IF l1 = LoSize THEN h + 1 ELSE h
       IN  IF L = 0 THEN FZero
           ELSE IF h1 = HiSize
           THEN [neg |-> neg, hi |-> HiMin, lo |-> 0, ex |-> e + k + 1]
           ELSE [neg |-> neg, hi |-> h1, lo |-> l1 % LoSize, ex |-> e + k]
       : l  \in {Bits(N, L - 53, 28)},
         h  \in {Bits(N, L - 25, 25)},
         rb \in {L >= 54 /\ Bits(N, L - 54, 1) = 1},
         sb \in {sticky \/ (L >= 55 /\ LowNonZero(N, L - 54))}})
       : L \in {BitLen(N)}}) : N \in {W}})

MantLimbs(p) ==
  The({<<x.lo % Base, x.lo \div Base, x.hi % Base, x.hi \div Base>> : x \in {p}})

\* int -> float, for |n| < 2^31
FromInt(n) ==
  The({The({Norm(m < 0, <<a % Base, (a \div Base) % Base, a \div (Base * Base)>>, 0, FALSE)
            : a \in {IF m < 0 THEN -m ELSE m}})
       : m \in {n}})

FNeg(x) == IF IsZero(x) THEN x ELSE [x EXCEPT !.neg = ~x.neg]

\* x * 2^n, exact
Scale(x, n) == IF IsZero(x) THEN x ELSE [x EXCEPT !.ex = x.ex + n]

\* -1, 0, 1 as |x| is below, equal to, above |y|
MagCmp(x, y) ==
  IF IsZero(x) THEN (IF IsZero(y) THEN 0 ELSE -1)
  ELSE IF IsZero(y) THEN 1
  ELSE IF x.ex # y.ex THEN (IF x.ex < y.ex THEN -1 ELSE 1)
  ELSE IF x.hi # y.hi THEN (IF x.hi < y.hi THEN -1 ELSE 1)
  ELSE IF x.lo # y.lo THEN (IF x.lo < y.lo THEN -1 ELSE 1)
  ELSE 0

FCmp(p, q) ==
  The({IF x.neg # y.neg
       THEN (IF IsZero(x) /\ IsZero(y) THEN 0 ELSE IF x.neg THEN -1 ELSE 1)
       ELSE IF x.neg THEN -MagCmp(x, y) ELSE MagCmp(x, y)
       : x \in {p}, y \in {q}})

FLt(x, y) == FCmp(x, y) < 0
FLe(x, y) == FCmp(x, y) <= 0
FGt(x, y) == FCmp(x, y) > 0
FGe(x, y) == FCmp(x, y) >= 0
FEq(x, y) == FCmp(x, y) = 0

\* -1, 0, 1 as the wide integer A is below, equal to, above M
CmpW(U, V) ==
  The({LET n  == Len(A)
           df == {k \in 0..(n - 1) : A[n - k] # Limb(M, n - k - 1)}
           k  == CHOOSE i \in df : \A j \in df : i <= j
       IN  IF df = {} THEN 0 ELSE IF A[n - k] < Limb(M, n - k - 1) THEN -1 ELSE 1
       : A \in {U}, M \in {V}})

\* A + s * C for two 8-limb integers and s = 1 or s = -1 (then A >= C)
AddL(U, s, V) ==
  The({LET t1 == A[1] + s * C[1]
           t2 == A[2] + s * C[2] + t1 \div Base
           t3 == A[3] + s * C[3] + t2 \div Base
           t4 == A[4] + s * C[4] + t3 \div Base
           t5 == A[5] + s * C[5] + t4 \div Base
           t6 == A[6] + s * C[6] + t5 \div Base
           t7 == A[7] + s * C[7] + t6 \div Base
           t8 == A[8] + s * C[8] + t7 \div Base
       IN  <<t1 % Base, t2 % Base, t3 % Base, t4 % Base,
             t5 % Base, t6 % Base, t7 % Base, t8 % Base, t8 \div Base>>
       : A \in {U}, C \in {V}})

\* the 4-limb integer N shifted left by d bits, 0 <= d <= 56, as 8 limbs
ShlL(N, d) ==
  <<Bits(N, -d, 14), Bits(N, 14 - d, 14), Bits(N, 28 - d, 14), Bits(N, 42 - d, 14),
    Bits(N, 56 - d, 14), Bits(N, 70 - d, 14), Bits(N, 84 - d, 14), Bits(N, 98 - d, 14)>>

\* big + small for nonzero floats with big.ex >= small.ex
AddAligned(big, small) ==
  The({IF d > 55 THEN big
       ELSE The({The({Norm(r[1], r[2], small.ex, FALSE)
                      : r \in {IF big.neg = small.neg THEN <<big.neg, AddL(A, 1, C)>>
                               ELSE IF c >= 0 THEN <<big.neg, AddL(A, -1, C)>>
                               ELSE <<small.neg, AddL(C, -1, A)>>}})
                 : c \in {CmpW(A, C)}})
       : d \in {big.ex - small.ex},
         A \in {IF big.ex - small.ex > 55 THEN <<>>
                ELSE ShlL(MantLimbs(big), big.ex - small.ex)},
         C \in {MantLimbs(small) \o <<0, 0, 0, 0>>}})

FAdd(p, q) ==
  The({IF IsZero(x) THEN y
       ELSE IF IsZero(y) THEN x
       ELSE The({AddAligned(big, small)
                 : big   \in {IF x.ex >= y.ex THEN x ELSE y},
                   small \in {IF x.ex >= y.ex THEN y ELSE x}})
       : x \in {p}, y \in {q}})

FSub(x, y) == FAdd(x, FNeg(y))

\* the 8-limb product of two 4-limb integers
MulL(U, V) ==
  The({LET t0 == a[1] * b[1]
           t1 == a[1] * b[2] + a[2] * b[1] + t0 \div Base
           t2 == a[1] * b[3] + a[2] * b[2] + a[3] * b[1] + t1 \div Base
           t3 == a[1] * b[4] + a[2] * b[3] + a[3] * b[2] + a[4] * b[1] + t2 \div Base
           t4 == a[2] * b[4] + a[3] * b[3] + a[4] * b[2] + t3 \div Base
           t5 == a[3] * b[4] + a[4] * b[3] + t4 \div Base
           t6 == a[4] * b[4] + t5 \div Base
       IN  <<t0 % Base, t1 % Base, t2 % Base, t3 % Base,
             t4 % Base, t5 % Base, t6 % Base, t6 \div Base>>
       : a \in {U}, b \in {V}})

FMul(p, q) ==
  The({IF IsZero(x) \/ IsZero(y) THEN FZero
       ELSE Norm(x.neg # y.neg, MulL(MantLimbs(x), MantLimbs(y)), x.ex + y.ex, FALSE)
       : x \in {p}, y \in {q}})

\* A - d * M for 5-limb A and 4-limb M, as 5 limbs (the result is >= 0)
MulSubL(U, d, V) ==
  The({LET t1 == A[1] - d * M[1]
           t2 == A[2] - d * M[2] + t1 \div Base
           t3 == A[3] - d * M[3] + t2 \div Base
           t4 == A[4] - d * M[4] + t3 \div Base
           t5 == A[5] + t4 \div Base
       IN  <<t1 % Base, t2 % Base, t3 % Base, t4 % Base, t5>>
       : A \in {U}, M \in {V}})

\* the next 14 quotient bits of R / M for R < M (4 limbs each, M of 53
\* bits): <<floor(R * 2^14 / M), the remainder>>.  The digit is estimated
\* from the leading bits, from below and at most one short, then corrected.
DivDigit(U, V) ==
  The({The({The({IF CmpW(T, M) >= 0
            THEN <<d + 1, SubSeq(MulSubL(T, 1, M), 1, 4)>>
            ELSE <<d, SubSeq(T, 1, 4)>>
                 : T \in {MulSubL(<<0, R[1], R[2], R[3], R[4]>>, d, M)}})
            : d \in {(R[4] * (2^19) + R[3] * (2^5) + R[2] \div (2^9))
                     \div (M[4] * (2^5) + M[3] \div (2^9) + 1)}})
       : R \in {U}, M \in {V}})

\* 57 quotient bits of X / M for two 53-bit integers: <<the quotient as 5
\* limbs, the remainder is zero>>
DivL(U, V) ==
  The({The({The({The({The({The({<<<<s4[1], s3[1], s2[1], s1[1], IF ge THEN 1 ELSE 0>>,
                             s4[2] = <<0, 0, 0, 0>>>>
                           : s4 \in {DivDigit(s3[2], M)}})
                      : s3 \in {DivDigit(s2[2], M)}})
                 : s2 \in {DivDigit(s1[2], M)}})
            : s1 \in {DivDigit(IF ge THEN SubSeq(MulSubL(X \o <<0>>, 1, M), 1, 4) ELSE X, M)}})
            : ge \in {CmpW(X, M) >= 0}})
       : X \in {U}, M \in {V}})

\* x / y for y # 0: long division, then rounded
FDiv(p, q) ==
  The({IF IsZero(x) THEN FZero
       ELSE The({Norm(x.neg # y.neg, Q[1], x.ex - y.ex - 56, ~Q[2])
                 : Q \in {DivL(MantLimbs(x), MantLimbs(y))}})
       : x \in {p}, y \in {q}})

(***************************************************************************)
(* Text.  A Python str is a sequence of one-character strings.             *)
(***************************************************************************)
Digits == <<"0", "1", "2", "3", "4", "5", "6", "7", "8", "9">>

\* str(n) for an int n >= 0
IntStr(n) ==
  LET k == CHOOSE d \in 1..10 : n < 10^d /\ (d = 1 \/ n >= 10^(d - 1))
  IN  [i \in 1..k |-> Digits[((n \div (10^(k - i))) % 10) + 1]]

\* n written with exactly p digits (leading zeros), for 0 <= n < 10^p
ZeroPad(n, p) == [i \in 1..p |-> Digits[((n \div (10^(p - i))) % 10) + 1]]

\* the float literal n / 10^p: the double nearest to the decimal
Dec(n, p) == FDiv(FromInt(n), FromInt(10^p))

\* int(x) for a float 0 <= x < 2^28
ToInt(p) ==
  The({IF IsZero(x) \/ x.ex > 0 THEN 0 ELSE Bits(MantLimbs(x), -x.ex, 28) : x \in {p}})

\* repr(x) of a float 0 <= x < 2^28 / 10^MaxReprDecimals: the shortest
\* decimal, of at least one fractional digit, whose literal is x again
MaxReprDecimals == 3

ReprFloat(v) ==
  The({The({IF ok = {} THEN <<"?">>
            ELSE The({IntStr(near[p] \div (10^p)) \o <<".">> \o ZeroPad(near[p] % (10^p), p)
                      : p \in {CHOOSE q \in ok : \A r \in ok : q <= r}})
            : ok \in {{p \in 1..MaxReprDecimals : Dec(near[p], p) = x}}})
       : x \in {v},
         near \in {[p \in 1..MaxReprDecimals |->
                     ToInt(FAdd(FMul(v, FromInt(10^p)), Dec(5, 1)))]}})

\* s.rsplit(sep, 1)[0]: s up to the last occurrence of sep, all of s when
\* sep does not occur
RSplitHead(s, sep) ==
  LET at == {i \in 1..(Len(s) - Len(sep) + 1) : SubSeq(s, i, i + Len(sep) - 1) = sep}
      i  == CHOOSE j \in at : \A k \in at : k <= j
  IN  IF at = {} THEN s ELSE SubSeq(s, 1, i - 1)

(***************************************************************************)
(* Constants (lines 23-29)                                                 *)
(***************************************************************************)
g == Dec(981, 2)
empty_mass == FromInt(5)
payload_fixed == FromInt(10)
specific_energy == FromInt(200)
power_req_coeff == FromInt(200)
tw_min == Dec(16, 1)
tw_rec == FromInt(2)

(***************************************************************************)
(* Motor catalog (lines 32-48): the dict's keys in insertion order, and    *)
(* the dict.                                                               *)
(***************************************************************************)
MotorKeys == <<
  <<"M", "N", "5", "0", "0", "8", " ", "K", "V", "1", "7", "0">>,
  <<"M", "N", "6", "0", "0", "7", "I", "I", " ", "K", "V", "3", "2", "0">>,
  <<"M", "N", "7", "0", "0", "5", " ", "K", "V", "1", "1", "5">>,
  <<"M", "N", "7", "0", "0", "5", " ", "K", "V", "2", "3", "0">>,
  <<"M", "N", "8", "0", "1", "2", " ", "K", "V", "1", "0", "0">>,
  <<"M", "N", "8", "0", "1", "4", " ", "K", "V", "1", "0", "0">>,
  <<"M", "N", "8", "0", "1", "7", " ", "K", "V", "1", "2", "0">>,
  <<"U", "1", "5", "I", "I", " ", "K", "V", "8", "0">>,
  <<"U", "1", "5", "L", " ", "K", "V", "4", "3">>,
  <<"U", "1", "5", "X", "X", "L", " ", "K", "V", "2", "9">>,
  <<"L", "I", "G", "P", "O", "W", "E", "R", " ", "U", "1", "2", "I", "I", " ", "K", "V", "1", "2", "0">>,
  <<"S", "U", "P", "E", "R", "-", "E", " ", "S", "1", "5", "0">>>>

MotorData == <<
  [thrust_kg |-> Dec(40, 1), motor_mass_kg |-> Dec(32, 2)],
  [thrust_kg |-> Dec(55, 1), motor_mass_kg |-> Dec(30, 2)],
  [thrust_kg |-> Dec(70, 1), motor_mass_kg |-> Dec(33, 2)],
  [thrust_kg |-> Dec(60, 1), motor_mass_kg |-> Dec(28, 2)],
  [thrust_kg |-> Dec(118, 1), motor_mass_kg |-> Dec(351, 3)],
  [thrust_kg |-> Dec(139, 1), motor_mass_kg |-> Dec(392, 3)],
  [thrust_kg |-> Dec(168, 1), motor_mass_kg |-> Dec(453, 3)],
  [thrust_kg |-> Dec(365, 1), motor_mass_kg |-> Dec(174, 2)],
  [thrust_kg |-> Dec(612, 1), motor_mass_kg |-> Dec(360, 2)],
  [thrust_kg |-> Dec(1023, 1), motor_mass_kg |-> Dec(513, 2)],
  [thrust_kg |-> Dec(200, 1), motor_mass_kg |-> Dec(50, 2)],
  [thrust_kg |-> Dec(900, 1), motor_mass_kg |-> Dec(910, 2)]>>

motors == [name \in {MotorKeys[i] : i \in 1..Len(MotorKeys)} |->
             MotorData[CHOOSE i \in 1..Len(MotorKeys) : MotorKeys[i] = name]]

(***************************************************************************)
(* Sidebar inputs (lines 51-68)                                            *)
(***************************************************************************)
\* f"{name} ({data['thrust_kg']} kgf)"
Label(name, data) ==
  name \o <<" ", "(">> \o ReprFloat(data.thrust_kg) \o <<" ", "k", "g", "f", ")">>

motor_options ==
  The({[i \in 1..Len(MotorKeys) |-> Label(MotorKeys[i], catalog[MotorKeys[i]])]
       : catalog \in {motors}})

\* sel.split(" ")[0]: the label up to its first space
MotorNameFirstWord(s) ==
  LET at == {i \in 1..Len(s) : s[i] = " "}
  IN  IF at = {} THEN s
      ELSE SubSeq(s, 1, (CHOOSE j \in at : \A k \in at : j <= k) - 1)

\* motor_name = sel.rsplit(" (", 1)[0]
MotorName(s) == RSplitHead(s, <<" ", "(">>)

slider_min == 500
slider_max == 40000
slider_default == 6000
slider_step == 100

SliderValues == {slider_min + slider_step * k : k \in 0..((slider_max - slider_min) \div slider_step)}

(***************************************************************************)
(* Core calculations (lines 71-93).  specs is the selected motor's entry,  *)
(* bWh the battery energy as a float.                                      *)
(***************************************************************************)
\* max(a, b) and min(a, b) of Python: the first argument unless the second
\* is strictly larger (smaller)
PyMax(p, q) == The({IF FGt(b, a) THEN b ELSE a : a \in {p}, b \in {q}})
PyMin(p, q) == The({IF FLt(b, a) THEN b ELSE a : a \in {p}, b \in {q}})

\* the int and float literals of the calculations
F4 == FromInt(4)
F0_7 == Dec(7, 1)
F60 == FromInt(60)

BatteryMass(bWh) == FDiv(bWh, specific_energy)

\* motor_thrust * (4 + 4 * 0.7)
TotalThrustKgf(specs) ==
  FMul(specs.thrust_kg, FAdd(F4, FMul(F4, F0_7)))

\* total mass taken to be the battery alone
TotalMassBatteryOnly(specs, battery_mass) == battery_mass

\* total mass without the payload
TotalMassNoPayload(specs, battery_mass) == FAdd(empty_mass, battery_mass)

\* empty_mass + battery_mass + payload_fixed
TotalMass(specs, battery_mass) == FAdd(FAdd(empty_mass, battery_mass), payload_fixed)

\* the difference without the floor of 0.0
AvailableExtraUnclamped(total_thrust_kgf, battery_mass) ==
  FSub(total_thrust_kgf, FAdd(FAdd(empty_mass, battery_mass), payload_fixed))

\* max(0.0, total_thrust_kgf - (empty_mass + battery_mass + payload_fixed))
AvailableExtra(total_thrust_kgf, battery_mass) ==
  PyMax(FZero, FSub(total_thrust_kgf, FAdd(FAdd(empty_mass, battery_mass), payload_fixed)))

\* hover power of the frame and payload alone, whatever the battery weighs
PHoverFixedMass(total_mass) == FMul(FAdd(empty_mass, payload_fixed), power_req_coeff)

PHover(total_mass) == FMul(total_mass, power_req_coeff)

\* (battery_Wh / P_hover if P_hover > 0 else 0.0) * 60
FlightTimeMin(bWh, P_hover) ==
  FMul(IF FGt(P_hover, FZero) THEN FDiv(bWh, P_hover) ELSE FZero, F60)

\* total_thrust_kgf / total_mass if total_mass > 0 else 0.0
TWRatio(total_thrust_kgf, total_mass) ==
  IF FGt(total_mass, FZero) THEN FDiv(total_thrust_kgf, total_mass) ELSE FZero

\* the threshold with the thrust multiplied by the target instead of divided
BatWhThresholdTimes(total_thrust_kgf, tw) ==
  PyMax(FZero, FMul(FSub(FSub(FMul(total_thrust_kgf, tw), empty_mass), payload_fixed),
                    specific_energy))

\* max(0.0, (total_thrust_kgf / tw - empty_mass - payload_fixed) * specific_energy)
BatWhThreshold(total_thrust_kgf, tw) ==
  PyMax(FZero, FMul(FSub(FSub(FDiv(total_thrust_kgf, tw), empty_mass), payload_fixed),
                    specific_energy))

Core(specs, bWh) ==
  The({The({The({The({
       [battery_mass     |-> bm,
        total_thrust_kgf |-> tt,
        total_thrust_N   |-> FMul(tt, g),
        available_extra  |-> AvailableExtra(tt, bm),
        total_mass       |-> tm,
        P_hover          |-> ph,
        flight_time_min  |-> FlightTimeMin(b, ph),
        T_W_ratio        |-> TWRatio(tt, tm),
        bat_Wh_min       |-> BatWhThreshold(tt, tw_min),
        bat_Wh_rec       |-> BatWhThreshold(tt, tw_rec)]
       : ph \in {PHover(tm)}})
       : tm \in {TotalMass(sp, bm)}})
       : bm \in {BatteryMass(b)}, tt \in {TotalThrustKgf(sp)}})
       : sp \in {specs}, b \in {bWh}})

(***************************************************************************)
(* T/W alert (lines 118-123)                                               *)
(***************************************************************************)
\* the alert with <= in place of <
AlertInclusive(T_W_ratio) ==
  The({IF FLe(r, tw_min) THEN "error"
       ELSE IF FLe(r, tw_rec) THEN "warning"
       ELSE "success"
       : r \in {T_W_ratio}})

Alert(T_W_ratio) ==
  The({IF FLt(r, tw_min) THEN "error"
       ELSE IF FLt(r, tw_rec) THEN "warning"
       ELSE "success"
       : r \in {T_W_ratio}})

(***************************************************************************)
(* Chart: the x range and the shaded T/W zones (lines 130, 149-170)        *)
(***************************************************************************)
linspace_start == 1000
linspace_stop == 20000
linspace_num == 200

\* np.linspace(start, stop, num): step = (stop - start) / (num - 1), sample
\* i is i * step + start, and the last sample is set to stop
linspace_step ==
  FDiv(FSub(FromInt(linspace_stop), FromInt(linspace_start)), FromInt(linspace_num - 1))

bat_range[i \in 1..linspace_num] ==
  IF i = linspace_num THEN FromInt(linspace_stop)
  ELSE FAdd(FMul(FromInt(i - 1), linspace_step), FromInt(linspace_start))

\* tm * power_req_coeff for tm = empty_mass + b / specific_energy + payload_fixed
CurveHover(b) ==
  FMul(FAdd(FAdd(empty_mass, FDiv(b, specific_energy)), payload_fixed), power_req_coeff)

\* a curve point with the eight motors' mass added to the take-off mass
CurveTimeWithMotors(data, bWh) ==
  The({The({IF FGt(ph, FZero) THEN FMul(FDiv(b, ph), F60) ELSE FZero
            : ph \in {FAdd(CurveHover(b),
                           FMul(FMul(FromInt(8), data.motor_mass_kg), power_req_coeff))}})
       : b \in {bWh}})

\* one point of a motor's curve: (b / ph * 60) if ph > 0 else 0.  data is the
\* loop's catalog entry; its thrust only enters the legend
CurveTime(data, bWh) ==
  The({The({IF FGt(ph, FZero) THEN FMul(FDiv(b, ph), F60) ELSE FZero
            : ph \in {CurveHover(b)}})
       : b \in {bWh}})

\* x0, x1 = bat_range[0], bat_range[-1]
x0 == bat_range[1]
x1 == bat_range[linspace_num]

F1_05 == Dec(105, 2)

\* max(all_times) * 1.05 over the plotted lines
YMax(ls) ==
  LET all_times == {ls[k].times[i] : k \in 1..Len(ls), i \in 1..linspace_num}
  IN  FMul(CHOOSE t \in all_times : \A u \in all_times : FLe(u, t), F1_05)

\* the axvspan calls, in order
Spans(bat_Wh_rec, bat_Wh_min) ==
  The({<<[color |-> "green", xmin |-> x0, xmax |-> PyMin(t_rec, x1)]>>
       \o (IF FLt(t_rec, x1) /\ FLt(t_rec, t_min)
           THEN <<[color |-> "yellow", xmin |-> PyMax(x0, t_rec), xmax |-> PyMin(t_min, x1)]>>
           ELSE <<>>)
       \o (IF FLt(t_min, x1)
           THEN <<[color |-> "red", xmin |-> PyMax(x0, t_min), xmax |-> x1]>>
           ELSE <<>>)
       : t_rec \in {bat_Wh_rec}, t_min \in {bat_Wh_min}})

(***************************************************************************)
(* One run of the script for the widget values (s, b): every value the     *)
(* page shows.  motors[motor_name] raises KeyError for an unknown name.    *)
(***************************************************************************)
Rerun(s, b) ==
  The({IF motor_name \notin DOMAIN catalog
       THEN [error |-> "KeyError", motor_name |-> motor_name]
       ELSE The({[error      |-> "none",
                  motor_name |-> motor_name,
                  specs      |-> catalog[motor_name],
                  calc       |-> r,
                  alert      |-> Alert(r.T_W_ratio),
                  spans      |-> Spans(r.bat_Wh_rec, r.bat_Wh_min)]
                 : r \in {Core(catalog[motor_name], FromInt(b))}})
       : motor_name \in {MotorName(s)}, catalog \in {motors}})

\* the page for every selectable pair of widget values
Page[o \in 1..Len(MotorKeys), b \in SliderValues] == Rerun(motor_options[o], b)

(***************************************************************************)
(* The calculations as functions of their inputs.  The script applies the  *)
(* core calculations (lines 71-93) to the slider's integer and the curve   *)
(* expression (lines 140-143) to the floats of bat_range; both are         *)
(* expressions over any float, so they are also applied here to inputs     *)
(* drawn from ascending families of battery energies.                      *)
(***************************************************************************)
Apply(specs, b) ==
  [error |-> "none", calc |-> Core(specs, b), fh |-> CurveTime(specs, b)]

\* the float after x (x positive, mantissa not all ones)
NextUp(x) == [x EXCEPT !.lo = @ + 1]

\* multiples of the slider's step from 0 up to the slider's maximum
GridProbes == [k \in 1..(slider_max \div slider_step + 1) |-> FromInt((k - 1) * slider_step)]

\* the chart's sample points
SampleProbes == [i \in 1..linspace_num |-> bat_range[i]]

\* neighbouring floats inside the slider's range
FineProbes ==
  <<NextUp(FromInt(slider_default)), NextUp(NextUp(FromInt(slider_default))),
    FromInt(slider_max), NextUp(FromInt(slider_max))>>

\* energies far beyond the slider's range: 2^62, 2^63, 201 * 2^57
HugeProbes == <<Scale(FromInt(1), 62), Scale(FromInt(1), 63), Scale(FromInt(201), 57)>>

\* energies below zero
NegativeProbes == <<FromInt(-slider_max), FromInt(-slider_default), FromInt(-slider_step)>>

Families == <<GridProbes, SampleProbes, FineProbes, HugeProbes, NegativeProbes>>

VARIABLES
  sel,          \* the selectbox's value: one of motor_options
  battery_Wh,   \* the slider's value
  page,         \* what the last run of the script computed and drew
  name_i,       \* curve loop: position in motors.items()
  b_i,          \* curve loop: samples of bat_range done for this motor
  times,        \* curve loop: the list being filled
  lines,        \* curve loop: the lines plotted so far (label, times)
  y_max,        \* the chart's upper y limit, once set
  probe,        \* calculations as functions: motor, family and index of the input
  arg,          \* the battery energy the calculations are applied to
  result,       \* what they return for it
  before        \* the previous input of the family and its result

vars == <<sel, battery_Wh, page, name_i, b_i, times, lines, y_max,
          probe, arg, result, before>>

appVars == <<sel, battery_Wh, page>>
curveVars == <<name_i, b_i, times, lines, y_max>>
probeVars == <<probe, arg, result, before>>

OptionIndex(s) == CHOOSE o \in 1..Len(motor_options) : motor_options[o] = s

\* first run: the selectbox shows its first option, the slider its default
AppInit ==
  /\ sel = motor_options[1]
  /\ battery_Wh = slider_default
  /\ page = Page[1, slider_default]

\* the curve loop before its first iteration
CurveInit ==
  /\ name_i = 1
  /\ b_i = 0
  /\ times = <<>>
  /\ lines = <<>>
  /\ y_max = <<>>

\* no input drawn
ProbeIdle ==
  /\ probe = [motor |-> 0, family |-> 0, index |-> 0]
  /\ arg = FZero
  /\ result = <<>>
  /\ before = <<>>

Init == AppInit /\ CurveInit /\ ProbeIdle

SelectMotor(o) ==
  /\ motor_options[o] # sel
  /\ sel' = motor_options[o]
  /\ battery_Wh' = battery_Wh
  /\ page' = Page[o, battery_Wh]
  /\ UNCHANGED <<curveVars, probeVars>>

\* the slider moves one step down or up (a drag passes through the steps)
SlideBattery(d) ==
  /\ battery_Wh + d * slider_step \in SliderValues
  /\ battery_Wh' = battery_Wh + d * slider_step
  /\ sel' = sel
  /\ page' = Page[OptionIndex(sel), battery_Wh']
  /\ UNCHANGED <<curveVars, probeVars>>

Next ==
  \/ \E o \in 1..Len(motor_options) : SelectMotor(o)
  \/ \E d \in {-1, 1} : SlideBattery(d)

Spec == Init /\ [][Next]_vars

(***************************************************************************)
(* The curve loop of one run of the script (lines 133-152)                 *)
(***************************************************************************)
\* times.append(fh) for the next b of bat_range
AppendTime ==
  /\ name_i <= Len(MotorKeys)
  /\ b_i < linspace_num
  /\ b_i' = b_i + 1
  /\ times' = Append(times, CurveTime(motors[MotorKeys[name_i]], bat_range[b_i + 1]))
  /\ UNCHANGED <<name_i, lines, y_max, appVars, probeVars>>

\* ax.plot(bat_range, times, label=...); all_times += times; next motor
PlotLine ==
  /\ name_i <= Len(MotorKeys)
  /\ b_i = linspace_num
  /\ lines' = Append(lines, [label |-> motor_options[name_i], times |-> times])
  /\ name_i' = name_i + 1
  /\ b_i' = 0
  /\ times' = <<>>
  /\ UNCHANGED <<y_max, appVars, probeVars>>

\* y_max = max(all_times) * 1.05; ax.set_ylim(0, y_max)
SetLimits ==
  /\ name_i > Len(MotorKeys)
  /\ y_max = <<>>
  /\ y_max' = <<YMax(lines)>>
  /\ UNCHANGED <<name_i, b_i, times, lines, appVars, probeVars>>

CurveNext == AppendTime \/ PlotLine \/ SetLimits

CurveSpec == Init /\ [][CurveNext]_vars

(***************************************************************************)
(* The calculations applied along a family of inputs                       *)
(***************************************************************************)
CoreInit ==
  /\ AppInit
  /\ CurveInit
  /\ \E o \in 1..Len(MotorKeys), f \in 1..Len(Families) :
       /\ probe = [motor |-> o, family |-> f, index |-> 1]
       /\ arg = Families[f][1]
       /\ result = Apply(motors[MotorKeys[o]], Families[f][1])
       /\ before = <<>>

\* the same motor, the next input of the family
NextProbe ==
  /\ probe.index < Len(Families[probe.family])
  /\ probe' = [probe EXCEPT !.index = @ + 1]
  /\ arg' = Families[probe.family][probe.index + 1]
  /\ result' = Apply(motors[MotorKeys[probe.motor]], arg')
  /\ before' = <<[arg |-> arg, result |-> result]>>
  /\ UNCHANGED <<appVars, curveVars>>

CoreNext == NextProbe

CoreSpec == CoreInit /\ [][CoreNext]_vars
(***************************************************************************)
(* Properties                                                              *)
(***************************************************************************)
\* the input is of the first two families: a multiple of the slider's step
\* in 0..slider_max, or a sample point of the chart
Selectable == probe.family \in {1, 2}

\* 60 * specific_energy / power_req_coeff
Ceiling == FDiv(FMul(F60, specific_energy), power_req_coeff)

C3_RecBelowMin ==
  /\ page.error = "none"
  /\ FLe(page.calc.bat_Wh_rec, page.calc.bat_Wh_min)

C3_Witness ==
  /\ page.error = "none"
  /\ IsZero(page.calc.bat_Wh_rec)
  /\ FGt(page.calc.bat_Wh_min, FZero)

\* C4: every band drawn on the chart has its left edge strictly below its
\* right edge and lies inside the x-axis range [x0, x1].
C4_BandsWellFormed ==
  /\ page.error = "none"
  /\ \A i \in 1..Len(page.spans) :
       /\ FLt(page.spans[i].xmin, page.spans[i].xmax)
       /\ FGe(page.spans[i].xmin, x0)
       /\ FLe(page.spans[i].xmax, x1)

\* T/W of the selected motor at battery energy b
TWAt(specs, b) == TWRatio(TotalThrustKgf(specs), TotalMass(specs, BatteryMass(b)))

\* a and t are equal or neighbouring floats of t's exponent
WithinUlp(a, t) ==
  MagCmp(FSub(a, t), [neg |-> FALSE, hi |-> HiMin, lo |-> 0, ex |-> t.ex - 52]) <= 0

\* the status shown agrees with the thresholds at the selected energy
StatusAgrees ==
  /\ page.error = "none"
  /\ (page.alert = "success") <=> FLe(FromInt(battery_Wh), page.calc.bat_Wh_rec)
  /\ (page.alert = "error") <=> FGt(FromInt(battery_Wh), page.calc.bat_Wh_min)
  /\ (page.alert = "warning") <=> /\ FGt(FromInt(battery_Wh), page.calc.bat_Wh_rec)
                                  /\ FLe(FromInt(battery_Wh), page.calc.bat_Wh_min)

\* C5 (as stated): the status is OK exactly when battery_Wh <= bat_Wh_rec,
\* CRITICAL exactly when battery_Wh > bat_Wh_min and WARNING otherwise; at a
\* positive threshold T/W equals the target ratio exactly.
C5_StatusAndExactThresholds ==
  /\ StatusAgrees
  /\ FGt(page.calc.bat_Wh_rec, FZero) => TWAt(page.specs, page.calc.bat_Wh_rec) = tw_rec
  /\ FGt(page.calc.bat_Wh_min, FZero) => TWAt(page.specs, page.calc.bat_Wh_min) = tw_min

\* C5 (amended): the status is OK exactly when battery_Wh <= bat_Wh_rec,
\* CRITICAL exactly when battery_Wh > bat_Wh_min and WARNING otherwise; at a
\* positive bat_Wh_rec T/W equals tw_rec exactly, at a positive bat_Wh_min
\* T/W is tw_min or a float next to it.
C5_StatusAndNearThresholds ==
  /\ StatusAgrees
  /\ FGt(page.calc.bat_Wh_rec, FZero) => TWAt(page.specs, page.calc.bat_Wh_rec) = tw_rec
  /\ FGt(page.calc.bat_Wh_min, FZero)
       => WithinUlp(TWAt(page.specs, page.calc.bat_Wh_min), tw_min)

C5_Witness ==
  /\ page.error = "none"
  /\ FromInt(battery_Wh) = page.calc.bat_Wh_min
  /\ page.alert = "warning"
  /\ page.calc.T_W_ratio = tw_min

\* every label splits back to its entry's name, and no name contains " ("
LabelsSplitBack ==
  \A o \in 1..Len(MotorKeys) :
    /\ MotorName(Label(MotorKeys[o], MotorData[o])) = MotorKeys[o]
    /\ \A i \in 1..(Len(MotorKeys[o]) - 1) : SubSeq(MotorKeys[o], i, i + 1) # <<" ", "(">>

\* C6: for every catalog entry the label, split at its last " (", gives
\* back the entry's name, so the lookup of the selected label succeeds with
\* that entry's specs; no catalog key contains " (".
C6_LabelRoundTrip ==
  /\ page.error = "none"
  /\ page.motor_name = MotorKeys[OptionIndex(sel)]
  /\ page.specs = MotorData[OptionIndex(sel)]
  /\ LabelsSplitBack

C6_Witness ==
  /\ sel = motor_options[Len(MotorKeys) - 1]
  /\ page.error = "none"
  /\ page.motor_name = <<"L", "I", "G", "P", "O", "W", "E", "R", " ", "U", "1", "2", "I", "I",
                         " ", "K", "V", "1", "2", "0">>

C8_MassAndPowerFloor ==
  (probe.motor > 0 /\ FGe(arg, FZero))
    => /\ FAdd(empty_mass, payload_fixed) = FromInt(15)
       /\ FGe(result.calc.total_mass, FromInt(15))
       /\ FGe(result.calc.P_hover, FromInt(3000))
       /\ FGt(result.calc.P_hover, FZero)
       /\ FGt(result.calc.total_mass, FZero)
       /\ FGt(CurveHover(arg), FZero)
       /\ IsZero(arg) => /\ IsZero(result.calc.battery_mass)
                         /\ result.calc.total_mass = FromInt(15)
                         /\ result.calc.P_hover = FromInt(3000)
                         /\ IsZero(result.calc.flight_time_min)
                         /\ IsZero(result.fh)

C8_Witness ==
  /\ probe.motor = Len(MotorKeys)
  /\ IsZero(arg)
  /\ result.calc.total_mass = FromInt(15)
  /\ result.calc.P_hover = FromInt(3000)

\* C9: available extra payload is never negative: it is total_thrust_kgf -
\* total_mass when that difference is positive and 0 otherwise.
C9_ExtraNeverNegative ==
  probe.motor > 0
    => /\ FGe(result.calc.available_extra, FZero)
       /\ result.calc.available_extra =
            IF FGt(FSub(result.calc.total_thrust_kgf, result.calc.total_mass), FZero)
            THEN FSub(result.calc.total_thrust_kgf, result.calc.total_mass)
            ELSE FZero

C9_Witness ==
  /\ probe.motor > 0
  /\ FLt(result.calc.total_thrust_kgf, result.calc.total_mass)
  /\ IsZero(result.calc.available_extra)

\* the main computation for the motor at position o of the catalog
MainAt(o, b) == Core(motors[MotorKeys[o]], b)

\* C10: flight time does not depend on the motor: total_mass, hover power
\* and flight_time_min of the motor whose curve is being drawn equal those
\* of the selected motor at the same energy, every curve drawn coincides
\* point for point with the first, and each curve point equals the main
\* computation's flight time at that energy.
C10_MotorIndependent ==
  /\ \A k \in 1..Len(lines) : lines[k].times = lines[1].times
  /\ (Len(lines) > 0 /\ b_i > 0) => times[b_i] = lines[1].times[b_i]
  /\ b_i > 0 =>
       LET drawn    == MainAt(name_i, bat_range[b_i])
           selected == MainAt(OptionIndex(sel), bat_range[b_i])
       IN  /\ times[b_i] = drawn.flight_time_min
           /\ times[b_i] = selected.flight_time_min
           /\ drawn.total_mass = selected.total_mass
           /\ drawn.P_hover = selected.P_hover

C10_Witness ==
  /\ Len(lines) = Len(MotorKeys)
  /\ y_max # <<>>
  /\ lines[Len(MotorKeys)].times = lines[1].times
  /\ lines[1].label # lines[Len(MotorKeys)].label
====
